---- MODULE Spec2Model ----
(***************************************************************************)
(* One render pass of the SEM analysis page (src/app.py): the upload and   *)
(* fit error boundaries of the page script, and create_path_diagram, which *)
(* parses the model specification text into nodes, positions and edge      *)
(* coordinate lists.                                                       *)
(*                                                                         *)
(* A Python str is a sequence of one-character strings.  A node name is    *)
(* such a sequence too.                                                    *)
(***************************************************************************)
EXTENDS Integers, Sequences, FiniteSets, TLC

VARIABLES
    pc,             \* position of the page script in the render pass; at
                    \* "sidebar" (line 178) nothing is left but fixed text
    model_desc,     \* the text returned by st.text_area (line 101)
    uploaded_file,  \* "None" or "file" (line 105)
    df,             \* "None" or "df" (line 110)
    pressed,        \* what st.button returned (line 133)
    sem_exc,        \* str(e) of the exception caught at line 17, "None" if none
    parameters,     \* first result of run_sem_analysis (line 135)
    fit_indices,    \* second result of run_sem_analysis
    model,          \* third result of run_sem_analysis
    shown,          \* the widgets written to the page, in order
    calls,          \* how often create_path_diagram was entered in this pass
    nodes,          \* create_path_diagram: local nodes (line 26)
    pos,            \* create_path_diagram: local pos (line 32)
    edge_x,         \* create_path_diagram: local edge_x (line 37)
    edge_y,         \* create_path_diagram: local edge_y (line 38)
    path_idx,       \* create_path_diagram: 1-based position of the loop of line 39
    fig,            \* <<>> until create_path_diagram returns, then <<its figure>>
    exc             \* the exception raised into the handler of line 174, "None" if none

vars == <<pc, model_desc, uploaded_file, df, pressed, sem_exc, parameters, fit_indices,
          model, shown, calls, nodes, pos, edge_x, edge_y, path_idx, fig, exc>>

pageVars == <<uploaded_file, df, pressed, sem_exc, parameters, fit_indices, model>>
diagramVars == <<nodes, pos, edge_x, edge_y, path_idx, fig, exc>>

----------------------------------------------------------------------------
(* Bounds of the model *)

\* longest specification text, in characters, of the diagram specification
MaxLen == 5
\* longest specification text, in characters, of the whole-page specification
MaxAppLen == 3

----------------------------------------------------------------------------
(* Values *)

None == "None"

\* The None that ends each edge in edge_x and edge_y (lines 44-45).  Every
\* coordinate is a natural number, so -1 is not a coordinate.
NoneCoord == -1

NL == "\n"
Marker == "~"

\* The characters specification texts are drawn from: two letters, the
\* blank, the marker, the other characters of the default text's grammar
\* ('=' of "=~", '+') and the line separator.
Alphabet == {"A", "B", " ", "~", "=", "+", NL}

\* Texts of at most n characters.
Texts(n) == UNION {[1..k -> Alphabet] : k \in 0..n}

\* The exception texts str(e) the model distinguishes.
ExcTexts == {"e1", "e2"}

Range(s) == {s[i] : i \in 1..Len(s)}

----------------------------------------------------------------------------
(* str methods *)

\* c in s, for a one-character c
Contains(s, c) == \E i \in 1..Len(s) : s[i] = c

\* s.split(c) for a one-character separator c: every occurrence splits, and
\* a string without c gives the one-element list [s] (also for s = "").
RECURSIVE Split(_, _)
Split(s, c) ==
    IF ~Contains(s, c) THEN <<s>>
    ELSE LET i == CHOOSE i \in 1..Len(s) :
                      s[i] = c /\ \A j \in 1..(i-1) : s[j] # c
         IN  <<SubSeq(s, 1, i-1)>> \o Split(SubSeq(s, i+1, Len(s)), c)

\* str.isspace for the characters of Alphabet (NL never occurs in a line)
IsSpace(c) == c \in {" ", NL}

\* s.strip(): s without its leading and trailing whitespace
RECURSIVE LStrip(_)
LStrip(s) == IF s # <<>> /\ IsSpace(s[1]) THEN LStrip(Tail(s)) ELSE s

RECURSIVE RStrip(_)
RStrip(s) ==
    IF s # <<>> /\ IsSpace(s[Len(s)]) THEN RStrip(SubSeq(s, 1, Len(s)-1)) ELSE s

Strip(s) == RStrip(LStrip(s))

----------------------------------------------------------------------------
(* create_path_diagram: the pure parts *)

\* s.split(c, 1): only the first occurrence splits.
SplitOnce(s, c) ==
    IF ~Contains(s, c) THEN <<s>>
    ELSE LET i == CHOOSE i \in 1..Len(s) :
                      s[i] = c /\ \A j \in 1..(i-1) : s[j] # c
         IN  <<SubSeq(s, 1, i-1), SubSeq(s, i+1, Len(s))>>

\* Variant of SplitMarker: path.split('~', 1)
SplitMarkerOnce(path) == SplitOnce(path, Marker)

\* path.split('~') (lines 27 and 41)
SplitMarker(path) == Split(path, Marker)

\* model_desc.split('\n') (lines 28 and 39)
Lines(text) == Split(text, NL)

\* Variant of IsRelationLine: '=~' in path
IsMeasurementLine(path) ==
    \E i \in 1..(Len(path) - 1) : path[i] = "=" /\ path[i+1] = Marker

\* '~' in path (lines 28 and 40)
IsRelationLine(path) == Contains(path, Marker)

\* The inner list of lines 27: [path.split('~')[0].strip(), path.split('~')[1].strip()]
PathItems(path) ==
    LET parts == SplitMarker(path)
    IN  <<Strip(parts[1]), Strip(parts[2])>>

\* The flattened list of lines 26-29, before set(): the two items of every
\* line that contains the marker, in line order.
RECURSIVE FlatItems(_)
FlatItems(lines) ==
    IF lines = <<>> THEN <<>>
    ELSE (IF IsRelationLine(Head(lines)) THEN PathItems(Head(lines)) ELSE <<>>)
         \o FlatItems(Tail(lines))

\* Every list that holds each element of S exactly once.
Orderings(S) ==
    {f \in [1..Cardinality(S) -> S] :
        \A i, j \in 1..Cardinality(S) : i # j => f[i] # f[j]}

\* Variant of ListOfSet: list(items), without set()
ListWithoutSet(items) == {items}

\* list(set(items)) (line 26): the distinct items, in the order the set
\* happens to iterate, which for str keys changes from process to process.
ListOfSet(items) == Orderings(Range(items))

\* Variant of Position: i % (2 * 2) for i % 2 * 2
PositionModFour(i) == <<i * 2, i % (2 * 2)>>

\* The position given to the node at 0-based index i (line 34)
Position(i) == <<i * 2, (i % 2) * 2>>

\* Variant of Layout: nodes with an empty name get no position
LayoutSkipEmpty(ns) ==
    [n \in Range(ns) \ {<<>>} |->
        LET i == CHOOSE i \in 1..Len(ns) :
                     ns[i] = n /\ \A j \in (i+1)..Len(ns) : ns[j] # n
        IN  Position(i - 1)]

\* The dict built by lines 32-34: a later entry for the same key overwrites
\* an earlier one.
Layout(ns) ==
    [n \in Range(ns) |->
        LET i == CHOOSE i \in 1..Len(ns) :
                     ns[i] = n /\ \A j \in (i+1)..Len(ns) : ns[j] # n
        IN  Position(i - 1)]

\* Variant of EdgeEnds: start and end exchanged
EdgeEndsSwapped(parts) == <<Strip(parts[2]), Strip(parts[1])>>

\* Variant of EdgeEnds: end is not stripped
EdgeEndsUntrimmed(parts) == <<Strip(parts[1]), parts[2]>>

\* start and end of lines 41-43, from the two parts of the line
EdgeEnds(parts) == <<Strip(parts[1]), Strip(parts[2])>>

\* The arguments of the two go.Scatter traces (lines 51-66)
Figure(ex, ey, ns, p) ==
    [edge_x |-> ex,
     edge_y |-> ey,
     node_x |-> [i \in 1..Len(ns) |-> p[ns[i]][1]],
     node_y |-> [i \in 1..Len(ns) |-> p[ns[i]][2]],
     text   |-> ns]

----------------------------------------------------------------------------
(* The page script: widgets *)

CsvWidgets ==
    << <<"subheader", "CSV File Information">>, <<"write", "columns">>,
       <<"subheader", "Data Preview">>, <<"write", "head">> >>

Tab1Table == << <<"subheader", "Model Parameters">>, <<"dataframe", "parameters">> >>
Tab1Download == << <<"download_button", "Download Parameters CSV">> >>
Tab2Head == << <<"subheader", "Fit Indices">> >>
Tab2Table == << <<"dataframe", "fit_df">>,
                <<"download_button", "Download Fit Indices CSV">> >>
Tab3Head == << <<"subheader", "Path Diagram">> >>
Chart == << <<"plotly_chart", "fig">> >>

SemError(text) == << <<"error", "Error in SEM analysis: ", text>> >>
FileError(text) == << <<"error", "Error processing file: ", text>> >>

\* What run_sem_analysis can do (lines 11-19): any of the four library calls
\* raises, with some text, or all four return; what inspect returns is the
\* library's business, and None is not excluded by this code.
SemOutcomes ==
    [raised : {TRUE}, text : ExcTexts]
    \cup [raised : {FALSE}, parameters : {None, "parameters"},
          fit_indices : {None, "fit_indices"}]

\* Variant of ResultsPresent: no guard
NoResultsCheck(p, f) == TRUE

\* The guard of line 137
ResultsPresent(p, f) == p # None /\ f # None

----------------------------------------------------------------------------
(* Initial states *)

NoDiagram ==
    /\ nodes = <<>>
    /\ pos = <<>>
    /\ edge_x = <<>>
    /\ edge_y = <<>>
    /\ path_idx = 0
    /\ fig = <<>>
    /\ exc = None

\* The pass has drawn the title, the text area and the uploader's label;
\* the text area has returned model_desc.
Init ==
    /\ pc = "upload"
    /\ model_desc \in Texts(MaxAppLen)
    /\ uploaded_file = None
    /\ df = None
    /\ pressed = FALSE
    /\ sem_exc = None
    /\ parameters = None
    /\ fit_indices = None
    /\ model = None
    /\ shown = <<>>
    /\ calls = 0
    /\ NoDiagram

\* The pass has entered create_path_diagram (line 171): a file was read, the
\* button was pressed, the fit gave both results and the tabs are drawn.
InitDiagram ==
    /\ pc = "nodes"
    /\ model_desc \in Texts(MaxLen)
    /\ uploaded_file = "file"
    /\ df = "df"
    /\ pressed = TRUE
    /\ sem_exc = None
    /\ parameters = "parameters"
    /\ fit_indices = "fit_indices"
    /\ model = "model"
    /\ shown = CsvWidgets \o Tab1Table \o Tab1Download \o Tab2Head \o Tab2Table
                \o Tab3Head
    /\ calls = 1
    /\ NoDiagram

----------------------------------------------------------------------------
(* The page script, lines 105-175 *)

\* Line 105-107: the uploader returns a file or None; without a file the
\* pass goes on to the sidebar.
FileUploader ==
    /\ pc = "upload"
    /\ \E f \in {None, "file"} :
          /\ uploaded_file' = f
          /\ pc' = IF f = None THEN "sidebar" ELSE "read_csv"
    /\ UNCHANGED <<model_desc, df, pressed, sem_exc, parameters, fit_indices,
                   model, shown, calls, diagramVars>>

\* Lines 108-130 and 174-175: read_csv returns a frame, whose columns and
\* head are written, or raises, which the handler of line 174 reports.
ReadCsv ==
    /\ pc = "read_csv"
    /\ \E out \in {"ok"} \cup ExcTexts :
          IF out = "ok"
          THEN /\ df' = "df"
               /\ shown' = shown \o CsvWidgets
               /\ pc' = "button"
               /\ exc' = exc
          ELSE /\ df' = df
               /\ shown' = shown \o FileError(out)
               /\ pc' = "sidebar"
               /\ exc' = out
    /\ UNCHANGED <<model_desc, uploaded_file, pressed, sem_exc, parameters,
                   fit_indices, model, calls, nodes, pos, edge_x, edge_y,
                   path_idx, fig>>

\* Line 133: the button was pressed in the interaction that started this
\* pass, or not.
Button ==
    /\ pc = "button"
    /\ \E b \in BOOLEAN :
          /\ pressed' = b
          /\ pc' = IF b THEN "run_sem" ELSE "sidebar"
    /\ UNCHANGED <<model_desc, uploaded_file, df, sem_exc, parameters,
                   fit_indices, model, shown, calls, diagramVars>>

\* Lines 135-137 with run_sem_analysis (lines 7-19): the results, or the
\* error message and three Nones; then the guard of line 137.
RunSemAnalysis ==
    /\ pc = "run_sem"
    /\ \E out \in SemOutcomes :
          /\ sem_exc' = IF out.raised THEN out.text ELSE None
          /\ parameters' = IF out.raised THEN None ELSE out.parameters
          /\ fit_indices' = IF out.raised THEN None ELSE out.fit_indices
          /\ model' = IF out.raised THEN None ELSE "model"
          /\ shown' = IF out.raised THEN shown \o SemError(out.text) ELSE shown
    /\ pc' = IF ResultsPresent(parameters', fit_indices') THEN "tab1" ELSE "sidebar"
    /\ UNCHANGED <<model_desc, uploaded_file, df, pressed, calls, diagramVars>>

\* Lines 141-152: the parameter table, then parameters.to_csv, which raises
\* AttributeError on None, then the download button.
Tab1 ==
    /\ pc = "tab1"
    /\ IF parameters = None
       THEN /\ shown' = shown \o Tab1Table
            /\ exc' = "AttributeError"
            /\ pc' = "raised"
       ELSE /\ shown' = shown \o Tab1Table \o Tab1Download
            /\ exc' = exc
            /\ pc' = "tab2"
    /\ UNCHANGED <<model_desc, pageVars, calls, nodes, pos, edge_x, edge_y,
                   path_idx, fig>>

\* Lines 154-167: fit_indices.items(), which raises AttributeError on None,
\* then the fit table and its download button.
Tab2 ==
    /\ pc = "tab2"
    /\ IF fit_indices = None
       THEN /\ shown' = shown \o Tab2Head
            /\ exc' = "AttributeError"
            /\ pc' = "raised"
       ELSE /\ shown' = shown \o Tab2Head \o Tab2Table
            /\ exc' = exc
            /\ pc' = "tab3"
    /\ UNCHANGED <<model_desc, pageVars, calls, nodes, pos, edge_x, edge_y,
                   path_idx, fig>>

\* Lines 169-171: the subheader, then the call of create_path_diagram.
Tab3 ==
    /\ pc = "tab3"
    /\ shown' = shown \o Tab3Head
    /\ calls' = calls + 1
    /\ pc' = "nodes"
    /\ UNCHANGED <<model_desc, pageVars, diagramVars>>

----------------------------------------------------------------------------
(* create_path_diagram, lines 21-75 *)

\* Lines 26-38: the node list, the position of every node, and the empty
\* edge lists.
CollectNodes ==
    /\ pc = "nodes"
    /\ nodes' \in ListOfSet(FlatItems(Lines(model_desc)))
    /\ pos' = Layout(nodes')
    /\ edge_x' = <<>>
    /\ edge_y' = <<>>
    /\ path_idx' = 1
    /\ pc' = "edges"
    /\ UNCHANGED <<model_desc, pageVars, shown, calls, fig, exc>>

\* Lines 39-45, one iteration: a line without the marker is skipped; the
\* unpacking of line 41 raises ValueError unless the split gives two parts;
\* pos[start] and pos[end] raise KeyError for a name that is no key of pos;
\* else the two lists grow by one edge and its None.
EdgeStep ==
    /\ pc = "edges"
    /\ path_idx <= Len(Lines(model_desc))
    /\ LET path == Lines(model_desc)[path_idx]
           parts == SplitMarker(path)
           ends == EdgeEnds(parts)
       IN  IF ~IsRelationLine(path)
           THEN /\ path_idx' = path_idx + 1
                /\ UNCHANGED <<pc, edge_x, edge_y, exc>>
           ELSE IF Len(parts) # 2
           THEN /\ exc' = "ValueError"
                /\ pc' = "raised"
                /\ UNCHANGED <<path_idx, edge_x, edge_y>>
           ELSE IF ~({ends[1], ends[2]} \subseteq DOMAIN pos)
           THEN /\ exc' = "KeyError"
                /\ pc' = "raised"
                /\ UNCHANGED <<path_idx, edge_x, edge_y>>
           ELSE /\ edge_x' = edge_x \o <<pos[ends[1]][1], pos[ends[2]][1], NoneCoord>>
                /\ edge_y' = edge_y \o <<pos[ends[1]][2], pos[ends[2]][2], NoneCoord>>
                /\ path_idx' = path_idx + 1
                /\ UNCHANGED <<pc, exc>>
    /\ UNCHANGED <<model_desc, pageVars, shown, calls, nodes, pos, fig>>

\* Lines 47-75: the loop is over; the figure is built and returned.
BuildFigure ==
    /\ pc = "edges"
    /\ path_idx > Len(Lines(model_desc))
    /\ fig' = <<Figure(edge_x, edge_y, nodes, pos)>>
    /\ pc' = "returned"
    /\ UNCHANGED <<model_desc, pageVars, shown, calls, nodes, pos, edge_x,
                   edge_y, path_idx, exc>>

----------------------------------------------------------------------------
(* The page script, lines 172-193 *)

\* Line 172
PlotChart ==
    /\ pc = "returned"
    /\ shown' = shown \o Chart
    /\ pc' = "sidebar"
    /\ UNCHANGED <<model_desc, pageVars, calls, diagramVars>>

\* Lines 174-175: the handler around everything after the upload
CatchError ==
    /\ pc = "raised"
    /\ shown' = shown \o FileError(exc)
    /\ pc' = "sidebar"
    /\ UNCHANGED <<model_desc, pageVars, calls, diagramVars>>

----------------------------------------------------------------------------
(* Specifications *)

NextDiagram ==
    \/ CollectNodes
    \/ EdgeStep
    \/ BuildFigure
    \/ PlotChart
    \/ CatchError

Next ==
    \/ FileUploader
    \/ ReadCsv
    \/ Button
    \/ RunSemAnalysis
    \/ Tab1
    \/ Tab2
    \/ Tab3
    \/ NextDiagram

\* A whole render pass, on texts of at most MaxAppLen characters
Spec == Init /\ [][Next]_vars

\* The call of create_path_diagram and what the page does with its outcome,
\* on texts of at most MaxLen characters
SpecDiagram == InitDiagram /\ [][NextDiagram]_vars

----------------------------------------------------------------------------
(* Vocabulary of the properties.  These definitions say what the text      *)
(* means, by places in the text, and use none of the parsing above but     *)
(* Lines.                                                                  *)

Min(S) == CHOOSE x \in S : \A y \in S : x <= y

\* The places of the marker in a line
MarkerPlaces(path) == {i \in 1..Len(path) : path[i] = Marker}

HasMarker(path) == MarkerPlaces(path) # {}

Max(S) == CHOOSE x \in S : \A y \in S : x >= y

\* s from its first to its last character that is no blank; empty if all
\* are blanks
Trimmed(s) ==
    LET inked == {i \in 1..Len(s) : s[i] # " "}
    IN  IF inked = {} THEN <<>> ELSE SubSeq(s, Min(inked), Max(inked))

\* The trimmed text before the first marker of a line that has one
LeftPart(path) ==
    LET m == Min(MarkerPlaces(path))
    IN  Trimmed(SubSeq(path, 1, m - 1))

\* The trimmed text between the first marker and the next one, or the end
RightPart(path) ==
    LET places == MarkerPlaces(path)
        m == Min(places)
        later == {i \in places : i > m}
        e == IF later = {} THEN Len(path) ELSE Min(later) - 1
    IN  Trimmed(SubSeq(path, m + 1, e))

TextLines == Lines(model_desc)

\* The lines that contain the marker, in source order
RelationLines == SelectSeq(TextLines, HasMarker)

\* No line contains the marker more than once
AtMostOneMarker ==
    LET lines == TextLines
    IN  \A i \in 1..Len(lines) : Cardinality(MarkerPlaces(lines[i])) <= 1

\* Some line contains the marker more than once
SomeLineHasTwoMarkers == ~AtMostOneMarker

\* The names the relation lines give: their left and right parts
PartNames ==
    LET rel == RelationLines
    IN  {LeftPart(rel[k]) : k \in 1..Len(rel)} \cup {RightPart(rel[k]) : k \in 1..Len(rel)}

\* The node list and the positions have been computed (line 34 is done)
Collected == calls = 1 /\ pc # "nodes"

\* The pass is over
Done == pc = "sidebar"

\* create_path_diagram has returned a figure
Returned == fig # <<>>

\* In figure f, edge k starts at the node named a and ends at the node named
\* b: the k-th triple of the edge lists holds the coordinates f gives to a
\* and to b.  Equal names have equal positions and different names have
\* different x, so the names are determined.
EdgeJoins(f, k, a, b) ==
    \E i, j \in 1..Len(f.text) :
        /\ f.text[i] = a
        /\ f.text[j] = b
        /\ f.edge_x[3*k - 2] = f.node_x[i]
        /\ f.edge_y[3*k - 2] = f.node_y[i]
        /\ f.edge_x[3*k - 1] = f.node_x[j]
        /\ f.edge_y[3*k - 1] = f.node_y[j]

----------------------------------------------------------------------------
(* C1 *)

\* Every relation line contains the marker once and no '='
RegressionOnly ==
    /\ AtMostOneMarker
    /\ LET rel == RelationLines
       IN  \A k \in 1..Len(rel) : ~Contains(rel[k], "=")

\* C1: on a text whose relation lines each contain '~' exactly once and no
\* '=', the returned figure has exactly one edge per relation line, in
\* source-line order, from the trimmed left part to the whole trimmed right
\* part, and its nodes are exactly those left and right parts.
C1_OneEdgePerRelationLine ==
    (Returned /\ RegressionOnly) =>
        LET f == fig[1]
            rel == RelationLines
        IN  /\ Len(f.edge_x) = 3 * Len(rel)
            /\ Len(f.edge_y) = 3 * Len(rel)
            /\ \A k \in 1..Len(rel) :
                  EdgeJoins(f, k, LeftPart(rel[k]), RightPart(rel[k]))
            /\ Range(f.text) = PartNames

\* Two different relation lines, one of them with a blank to trim, have
\* been drawn.
C1_Witness ==
    /\ Returned
    /\ RegressionOnly
    /\ Contains(model_desc, " ")
    /\ LET rel == RelationLines
       IN  Len(rel) = 2 /\ LeftPart(rel[1]) # LeftPart(rel[2])

----------------------------------------------------------------------------
(* C5 *)

\* C5: the node list holds no name twice, and every left or right part of a
\* relation line is in it exactly once.
C5_NodesDistinct ==
    Collected =>
        /\ \A i, j \in 1..Len(nodes) : i # j => nodes[i] # nodes[j]
        /\ \A n \in PartNames : Cardinality({i \in 1..Len(nodes) : nodes[i] = n}) = 1

\* The same name is the right part of two relation lines, and another name
\* is a node too.
C5_Witness ==
    /\ Collected
    /\ Len(nodes) >= 2
    /\ LET rel == RelationLines
       IN  Len(rel) = 2 /\ RightPart(rel[1]) = RightPart(rel[2])

----------------------------------------------------------------------------
(* C6 *)

\* C6: in whatever order the nodes are listed, the node at 0-based index i
\* has position (2*i, 2*(i mod 2)), so the positions in use are those of the
\* indices below the number of distinct nodes.
C6_PositionByIndex ==
    Collected =>
        /\ DOMAIN pos = Range(nodes)
        /\ \A k \in 1..Len(nodes) :
              pos[nodes[k]] = <<2 * (k - 1), 2 * ((k - 1) % 2)>>
        /\ {pos[n] : n \in DOMAIN pos}
              = {<<2 * i, 2 * (i % 2)>> : i \in 0..(Cardinality(Range(nodes)) - 1)}

\* Three nodes are placed, so both rows are used and the first row twice.
C6_Witness == Collected /\ Len(nodes) = 3

----------------------------------------------------------------------------
(* C10 *)

\* The number of relation lines among the first n lines
RelationLinesBefore(n) ==
    LET lines == TextLines
    IN  Cardinality({i \in 1..Len(lines) : i < n /\ HasMarker(lines[i])})

\* C10: on a text where no line contains '~' more than once, every edge end
\* has a position, nothing is raised, and every relation line adds the
\* triple (start, end, None) to both edge lists, so that the lists of the
\* figure have three entries per relation line.
C10_EveryEndHasPosition ==
    AtMostOneMarker =>
        /\ exc = None
        /\ Collected => PartNames \subseteq DOMAIN pos
        /\ pc = "edges" =>
              /\ Len(edge_x) = 3 * RelationLinesBefore(path_idx)
              /\ Len(edge_y) = 3 * RelationLinesBefore(path_idx)
        /\ Done => Returned
        /\ Returned =>
              LET rel == RelationLines
              IN
              /\ Len(fig[1].edge_x) = 3 * Len(rel)
              /\ Len(fig[1].edge_y) = 3 * Len(rel)
              /\ \A k \in 1..Len(rel) :
                    LET a == LeftPart(rel[k])
                        b == RightPart(rel[k])
                    IN  /\ SubSeq(fig[1].edge_x, 3*k - 2, 3*k)
                              = <<pos[a][1], pos[b][1], NoneCoord>>
                        /\ SubSeq(fig[1].edge_y, 3*k - 2, 3*k)
                              = <<pos[a][2], pos[b][2], NoneCoord>>

\* A figure with two edges whose parts had blanks to trim has been returned.
C10_Witness ==
    /\ Returned
    /\ AtMostOneMarker
    /\ LET rel == RelationLines
       IN  Len(rel) = 2 /\ \E k \in 1..2 : Contains(rel[k], " ")

----------------------------------------------------------------------------
(* C2 and C3 *)

\* A variable name: letters only, and at least one
IsName(n) == n # <<>> /\ \A i \in 1..Len(n) : n[i] \in {"A", "B"}

\* The text is the one line "X =~ Y" for names X and Y
IsMeasurementOf(text, X, Y) ==
    \E i \in 1..(Len(text) - 1) :
        /\ text[i] = "="
        /\ text[i + 1] = Marker
        /\ IsName(X) /\ X = Trimmed(SubSeq(text, 1, i - 1))
        /\ IsName(Y) /\ Y = Trimmed(SubSeq(text, i + 2, Len(text)))

NamesIn(text) ==
    {n \in {SubSeq(text, i, j) : i \in 1..Len(text), j \in 1..Len(text)} : IsName(n)}

\* C2: for the one measurement line "X =~ Y" the figure has the nodes X and
\* Y and the one edge from X to Y.
C2_MeasurementLineNodes ==
    Returned =>
        \A X, Y \in NamesIn(model_desc) :
            IsMeasurementOf(model_desc, X, Y) =>
                /\ Range(fig[1].text) = {X, Y}
                /\ Len(fig[1].edge_x) = 3
                /\ EdgeJoins(fig[1], 1, X, Y)

\* The terms of a right-hand side: its trimmed pieces between the '+'
RECURSIVE Terms(_)
Terms(rhs) ==
    IF ~Contains(rhs, "+") THEN {Trimmed(rhs)}
    ELSE LET i == Min({i \in 1..Len(rhs) : rhs[i] = "+"})
         IN  {Trimmed(SubSeq(rhs, 1, i - 1))} \cup Terms(SubSeq(rhs, i + 1, Len(rhs)))

\* The text after the one marker of a line
AfterMarker(path) == SubSeq(path, Min(MarkerPlaces(path)) + 1, Len(path))

\* A regression line "X ~ Y1 + Y2 + ...": one marker, no '=', names on both
\* sides, several right-hand terms
IsSeveralTermLine(path) ==
    /\ Cardinality(MarkerPlaces(path)) = 1
    /\ ~Contains(path, "=")
    /\ IsName(LeftPart(path))
    /\ Contains(AfterMarker(path), "+")
    /\ \A t \in Terms(AfterMarker(path)) : IsName(t)

\* C3: the left-hand term and each of the several right-hand terms of a
\* relation line is a node.
C3_EveryTermIsNode ==
    Collected =>
        LET lines == TextLines
        IN  \A k \in 1..Len(lines) :
                IsSeveralTermLine(lines[k]) =>
                    /\ LeftPart(lines[k]) \in Range(nodes)
                    /\ Terms(AfterMarker(lines[k])) \subseteq Range(nodes)

----------------------------------------------------------------------------
(* C4 *)

\* What the pass has made of the text when it is over: an edge and the two
\* part names for every line with the marker, nothing for any other line.
MarkerLinesAndNoOthersContribute ==
    Done =>
        LET rel == RelationLines
        IN  /\ Range(nodes) = PartNames
            /\ Len(edge_x) = 3 * Len(rel)
            /\ Len(edge_y) = 3 * Len(rel)
            /\ rel = <<>> => nodes = <<>> /\ edge_x = <<>> /\ edge_y = <<>>

\* C4 as stated: a line contributes its nodes and an edge exactly if it
\* contains '~', for every text.
C4_MarkerLinesContribute == MarkerLinesAndNoOthersContribute

\* C4, amended: the same for every text in which no line contains '~' more
\* than once.
C4_MarkerLinesContributeOnce == AtMostOneMarker => MarkerLinesAndNoOthersContribute

\* The pass is over for a text with a relation line and a line that is not
\* blank and has no marker.
C4_Witness ==
    /\ Done
    /\ AtMostOneMarker
    /\ Len(RelationLines) = 1
    /\ LET lines == TextLines
       IN  \E i \in 1..Len(lines) : ~HasMarker(lines[i]) /\ Trimmed(lines[i]) # <<>>

----------------------------------------------------------------------------
(* C8 *)

\* Some line has one marker and nothing but blanks after it, such as "A ~"
SomeRightPartEmpty ==
    LET lines == TextLines
    IN  \E k \in 1..Len(lines) :
            /\ Cardinality(MarkerPlaces(lines[k])) = 1
            /\ RightPart(lines[k]) = <<>>

\* Some line is a name, one marker and nothing but blanks, such as "A ~"
SomeLineIsNameAndMarker ==
    LET lines == TextLines
    IN  \E k \in 1..Len(lines) :
            /\ Cardinality(MarkerPlaces(lines[k])) = 1
            /\ IsName(LeftPart(lines[k]))
            /\ RightPart(lines[k]) = <<>>

\* C8 as stated: on a text with a relation line whose right-hand side is
\* empty, such as "A ~", the call raises and gives no figure.
C8_EmptyRightPartRaises ==
    (SomeLineIsNameAndMarker /\ Done) => (exc # None /\ ~Returned)

\* C8, amended: a relation line whose right-hand side is empty does not make
\* the call fail: the empty name is a node, and unless some line contains
\* '~' more than once the call returns the figure, which is drawn.
C8_EmptyRightPartIsNode ==
    SomeRightPartEmpty =>
        /\ Collected => <<>> \in Range(nodes)
        /\ AtMostOneMarker =>
              /\ exc = None
              /\ Returned =>
                    /\ <<>> \in Range(fig[1].text)
                    /\ Len(fig[1].edge_x) = 3 * Len(RelationLines)
                    /\ Len(fig[1].edge_y) = 3 * Len(RelationLines)
              /\ Done =>
                    /\ Returned
                    /\ shown[Len(shown)] = Chart[1]

\* The figure for a text like "A ~" has been returned.
C8_Witness ==
    /\ Returned
    /\ SomeRightPartEmpty
    /\ SomeLineIsNameAndMarker
    /\ Done

----------------------------------------------------------------------------
(* C9 *)

\* C9: if a line contains '~' more than once, the node list is still
\* computed, from the first two parts of each relation line, and then the
\* call raises and returns no figure.
C9_TwoMarkersRaise ==
    SomeLineHasTwoMarkers =>
        /\ Collected => Range(nodes) = PartNames
        /\ ~Returned
        /\ pc # "returned"
        /\ Done =>
              /\ exc = "ValueError"
              /\ shown[Len(shown)] = FileError("ValueError")[1]

\* The call has raised on a line like "A~~B", whose third part is no node.
C9_Witness ==
    /\ SomeLineHasTwoMarkers
    /\ pc = "raised"
    /\ exc = "ValueError"
    /\ Len(nodes) = 2
    /\ \E k \in 1..Len(TextLines) :
          LET path == TextLines[k]
              last == SubSeq(path, Min(MarkerPlaces(path) \ {Min(MarkerPlaces(path))}) + 1,
                             Len(path))
          IN  /\ Cardinality(MarkerPlaces(path)) = 2
              /\ IsName(last)
              /\ last \notin Range(nodes)

----------------------------------------------------------------------------
(* C7 *)

Kinds(ws) == {ws[i][1] : i \in 1..Len(ws)}

\* C7: when the fit raises, its text is reported, the three results are
\* None and the pass goes straight to the sidebar: no table, no download
\* button, no chart, no call of create_path_diagram.  And the diagram is
\* built only after a file was uploaded and read, the button was pressed
\* and the fit gave both results.
C7_FitErrorStopsPass ==
    /\ sem_exc # None =>
          /\ SemError(sem_exc)[1] \in Range(shown)
          /\ parameters = None /\ fit_indices = None /\ model = None
          /\ Done
          /\ calls = 0
          /\ Kinds(shown) \cap {"dataframe", "download_button", "plotly_chart"} = {}
    /\ calls > 0 =>
          /\ uploaded_file # None
          /\ df # None
          /\ pressed
          /\ sem_exc = None
          /\ parameters # None /\ fit_indices # None

\* A pass in which the fit raised is over.
C7_Witness == Done /\ sem_exc # None /\ pressed

====
